---------------------------- MODULE Spec2Model ----------------------------
(***************************************************************************)
(* A model of the raidixlab augmented red-black tree (src/rbtree.c,        *)
(* src/rbtree.h, src/rbtree_augmented.h) driven by a caller like the one   *)
(* in the repository's test program.                                       *)
(*                                                                         *)
(* The heap is a record h of functions over node identities:               *)
(*   h.rb_node            root->rb_node                                    *)
(*   h.parent, h.color    the two halves of node->__rb_parent_color        *)
(*   h.rb_left, h.rb_right                                                 *)
(*   h.payload            my_node.payload.count (the augmented value)      *)
(*   h.fault              TRUE once a NULL reference has been dereferenced *)
(*   h.calls              the callbacks called so far in the running call  *)
(*   h.stores             the child and root references after each store   *)
(*                        to one of them in the running call               *)
(*   h.steps              the iterations and cases of the rebalancing      *)
(*                        loops entered so far in the running call         *)
(* Every C function is an operator from heap to heap (or to a record with  *)
(* the heap and the returned value); loops are RECURSIVE operators.        *)
(***************************************************************************)
EXTENDS Integers, Sequences, FiniteSets, TLC

\* Number of caller-allocated node records.
NumNodes == 11

NULL == 0
RDX_RB_RED == 0
RDX_RB_BLACK == 1

Nodes == 1..NumNodes

\* The records whose keys differ pairwise (the last record repeats the keys
\* of the first).
Distinct == 1..(NumNodes - 1)

\* Number of records of the tree that is searched while it is inserted into.
RaceNodes == 6

Racing == 1..RaceNodes

\* Number of nodes the round trip inserts and erases.
RoundTripNodes == 6

RoundTrip == 1..RoundTripNodes

\* Number of records the caller that replaces nodes works with.
ReplaceNodes == 8

Replaceable == 1..ReplaceNodes

\* Number of records handed to rdx_rb_insert alone and then erased.
LinkedNodes == 6

Linked == 1..LinkedNodes

\* Number of records of the tree that is torn down in postorder.
TeardownNodes == 7

TornDown == 1..TeardownNodes

\* Number of records of the augmented tree whose callbacks are observed.
ObservedNodes == 7

Observable == 1..ObservedNodes
Refs == Nodes \cup {NULL}

VARIABLES
    rb_node,      \* root->rb_node
    rb_parent,    \* pointer part of node->__rb_parent_color
    rb_color,     \* colour bit of node->__rb_parent_color
    rb_left,      \* node->rb_left
    rb_right,     \* node->rb_right
    payload,      \* my_node.payload.count
    fault,        \* a NULL reference was dereferenced
    resident,     \* caller's bookkeeping: nodes inserted and not yet erased
    status,       \* how the caller's last call ended
    last,         \* the node the caller's last step was about: the replacement
                  \* put in, the postorder cursor, the node of an observed call
    calls,        \* the callbacks an observed call made, in order
    pending,      \* the child and root references as readers still find
                  \* them, one entry for each store the running insertion
                  \* has yet to make; empty when no insertion is running
    finder        \* the rdx_rb_find that runs beside the caller

vars == <<rb_node, rb_parent, rb_color, rb_left, rb_right, payload, fault,
          resident, status, last, calls, pending, finder>>

Heap == [rb_node |-> rb_node, parent |-> rb_parent, color |-> rb_color,
         rb_left |-> rb_left, rb_right |-> rb_right, payload |-> payload,
         fault |-> fault, calls |-> <<>>, steps |-> <<>>, stores |-> <<>>]

Store(h) ==
    /\ rb_node' = h.rb_node
    /\ rb_parent' = h.parent
    /\ rb_color' = h.color
    /\ rb_left' = h.rb_left
    /\ rb_right' = h.rb_right
    /\ payload' = h.payload
    /\ fault' = h.fault

Fault(h) == [h EXCEPT !.fault = TRUE]

----------------------------------------------------------------------------
(* The caller's records: my_node.weak_key, my_node.strict_key.  The keys    *)
(* are test data: three nodes share each weak key and differ in the strict  *)
(* key, and the last node carries the same pair of keys as the first.       *)

KeySlot(n) == (n - 1) % (NumNodes - 1)

weak_key == [n \in Nodes |-> KeySlot(n) \div 3]

strict_key == [n \in Nodes |-> (2 * KeySlot(n)) % 3]

weak_compare(left, right) ==
    IF weak_key[left] < weak_key[right] THEN -1
    ELSE IF weak_key[left] = weak_key[right] THEN 0
    ELSE 1

strict_compare(left, right) ==
    LET weak_result == weak_compare(left, right) IN
    IF weak_result # 0 THEN weak_result
    ELSE IF strict_key[left] < strict_key[right] THEN -1
    ELSE IF strict_key[left] = strict_key[right] THEN 0
    ELSE 1

----------------------------------------------------------------------------
(* rbtree.h, rbtree_augmented.h: the node representation *)

rdx_rb_parent(h, r) == h.parent[r]

rdx_rb_is_red(h, rb) == h.color[rb] = RDX_RB_RED

rdx_rb_is_black(h, rb) == h.color[rb] = RDX_RB_BLACK

RDX_RB_EMPTY_ROOT(h) == h.rb_node = NULL

\* __rb_parent_color == (unsigned long)node: the pointer part is the node
\* itself and the colour bit is 0.
RDX_RB_EMPTY_NODE(h, node) ==
    h.parent[node] = node /\ h.color[node] = RDX_RB_RED

RDX_RB_CLEAR_NODE(h, node) ==
    [h EXCEPT !.parent[node] = node, !.color[node] = RDX_RB_RED]

rdx_rb_set_parent(h, rb, p) == [h EXCEPT !.parent[rb] = p]

rdx_rb_set_parent_color(h, rb, p, color) ==
    [h EXCEPT !.parent[rb] = p, !.color[rb] = color]

rdx_rb_set_black(h, rb) == [h EXCEPT !.color[rb] = RDX_RB_BLACK]

rdx_rb_red_parent(h, red) == h.parent[red]

\* h.stores lists the tree as a reader of the child references and of the
\* root reference finds it after each store to one of them.
Stored(h) ==
    [h EXCEPT !.stores = Append(@, [rb_node |-> h.rb_node,
                                    rb_left |-> h.rb_left,
                                    rb_right |-> h.rb_right])]

\* Mutant: the root reference is not rewritten.
change_child_keeps_root(h, old, new, parent) ==
    IF parent # NULL
    THEN IF h.rb_left[parent] = old
         THEN [h EXCEPT !.rb_left[parent] = new]
         ELSE [h EXCEPT !.rb_right[parent] = new]
    ELSE h

__rdx_rb_change_child(h, old, new, parent) ==
    IF parent # NULL
    THEN IF h.rb_left[parent] = old
         THEN Stored([h EXCEPT !.rb_left[parent] = new])
         ELSE Stored([h EXCEPT !.rb_right[parent] = new])
    ELSE Stored([h EXCEPT !.rb_node = new])

\* rb_link names the slot *rb_link: the root reference, or a child field of
\* the node `owner`.
rdx_rb_link_node(h, node, parent, rb_link) ==
    LET h1 == [h EXCEPT !.parent[node] = parent, !.color[node] = RDX_RB_RED,
                        !.rb_left[node] = NULL, !.rb_right[node] = NULL]
    IN  Stored(CASE rb_link.slot = "root"  -> [h1 EXCEPT !.rb_node = node]
                 [] rb_link.slot = "left"  -> [h1 EXCEPT !.rb_left[rb_link.owner] = node]
                 [] rb_link.slot = "right" -> [h1 EXCEPT !.rb_right[rb_link.owner] = node])

\* Mutant: old is recoloured but keeps the parent it had.
rotate_set_parents_old_keeps_parent(h, old, new, color) ==
    LET parent == rdx_rb_parent(h, old)
        h1 == [h EXCEPT !.parent[new] = h.parent[old], !.color[new] = h.color[old]]
        h2 == [h1 EXCEPT !.color[old] = color]
    IN  __rdx_rb_change_child(h2, old, new, parent)

__rdx_rb_rotate_set_parents(h, old, new, color) ==
    LET parent == rdx_rb_parent(h, old)
        h1 == [h EXCEPT !.parent[new] = h.parent[old], !.color[new] = h.color[old]]
        h2 == rdx_rb_set_parent_color(h1, old, new, color)
    IN  __rdx_rb_change_child(h2, old, new, parent)

----------------------------------------------------------------------------
(* The augmentation callbacks.  aug = TRUE selects the triple generated by  *)
(* RDX_RB_DECLARE_CALLBACKS for the test's subtree count, aug = FALSE the   *)
(* dummy callbacks of rbtree.c.                                             *)

construct_payload == 1

compute_payload(h, data) ==
    LET result == construct_payload
        r1 == IF h.rb_left[data] # NULL
              THEN result + h.payload[h.rb_left[data]] ELSE result
    IN  IF h.rb_right[data] # NULL
        THEN r1 + h.payload[h.rb_right[data]] ELSE r1

RECURSIVE payload_propagate(_, _, _)
payload_propagate(h, rb, stop) ==
    IF rb = stop THEN h
    ELSE IF rb = NULL THEN Fault(h)
    ELSE payload_propagate([h EXCEPT !.payload[rb] = compute_payload(h, rb)],
                           rdx_rb_parent(h, rb), stop)

payload_copy(h, rb_old, rb_new) ==
    [h EXCEPT !.payload[rb_new] = h.payload[rb_old]]

payload_rotate(h, rb_old, rb_new) ==
    LET h1 == [h EXCEPT !.payload[rb_old] = compute_payload(h, rb_old)]
    IN  [h1 EXCEPT !.payload[rb_new] = compute_payload(h1, rb_new)]

\* h.calls lists the calls made through the callback triple: which callback,
\* its two arguments, and the links of the tree at the time of the call.
Called(h, call, a, b) ==
    [h EXCEPT !.calls = Append(@, [call |-> call, a |-> a, b |-> b,
                                   rb_node |-> h.rb_node,
                                   rb_left |-> h.rb_left,
                                   rb_right |-> h.rb_right])]

\* h.steps lists the places a rebalancing loop has passed: which loop, the
\* top of an iteration or the case entered, the loop's node and parent there,
\* and the tree at that time.
Stepped(h, loop, at, node, parent) ==
    [h EXCEPT !.steps = Append(@, [loop |-> loop, at |-> at, node |-> node,
                                   parent |-> parent,
                                   color |-> h.color, up |-> h.parent,
                                   rb_left |-> h.rb_left,
                                   rb_right |-> h.rb_right])]

augment_propagate(h, aug, node, stop) ==
    IF aug THEN payload_propagate(Called(h, "propagate", node, stop), node, stop)
    ELSE h

augment_copy(h, aug, old, new) ==
    IF aug THEN payload_copy(Called(h, "copy", old, new), old, new) ELSE h

augment_rotate(h, aug, old, new) ==
    IF aug THEN payload_rotate(Called(h, "rotate", old, new), old, new) ELSE h

----------------------------------------------------------------------------
(* rbtree.c: __rdx_rb_insert, the insertion rebalancing loop *)

RECURSIVE insert_loop(_, _, _, _)

\* Mutant: Case 1 recolours the uncle and leaves the parent RED.
insert_case1_parent_stays_red(h, parent, gparent, tmp) ==
    LET h1 == rdx_rb_set_parent_color(h, tmp, gparent, RDX_RB_BLACK)
        node == gparent
        parent2 == rdx_rb_parent(h1, node)
        h3 == rdx_rb_set_parent_color(h1, node, parent2, RDX_RB_RED)
    IN  [h |-> h3, node |-> node, parent |-> parent2]

\* Mutant: Case 1 moves up to gparent without colouring it RED.
insert_case1_gparent_stays_black(h, parent, gparent, tmp) ==
    LET h0 == Stepped(h, "insert", "case 1", gparent, parent)
        h1 == rdx_rb_set_parent_color(h0, tmp, gparent, RDX_RB_BLACK)
        h2 == rdx_rb_set_parent_color(h1, parent, gparent, RDX_RB_BLACK)
        node == gparent
        parent2 == rdx_rb_parent(h2, node)
    IN  [h |-> h2, node |-> node, parent |-> parent2]

\* Case 1 - colour flips; the loop continues at gparent.  tmp is the uncle.
insert_case1(h, parent, gparent, tmp) ==
    LET h0 == Stepped(h, "insert", "case 1", gparent, parent)
        h1 == rdx_rb_set_parent_color(h0, tmp, gparent, RDX_RB_BLACK)
        h2 == rdx_rb_set_parent_color(h1, parent, gparent, RDX_RB_BLACK)
        node == gparent
        parent2 == rdx_rb_parent(h2, node)
        h3 == rdx_rb_set_parent_color(h2, node, parent2, RDX_RB_RED)
    IN  [h |-> h3, node |-> node, parent |-> parent2]

\* parent == gparent->rb_left: Case 2 - left rotate at parent
insert_case2_left(h, aug, node, parent) ==
    LET tmp == h.rb_left[node]
        h0 == Stepped(h, "insert", "case 2", node, parent)
        h1 == Stored([h0 EXCEPT !.rb_right[parent] = tmp])
        h2 == Stored([h1 EXCEPT !.rb_left[node] = parent])
        h3 == IF tmp # NULL
              THEN rdx_rb_set_parent_color(h2, tmp, parent, RDX_RB_BLACK) ELSE h2
        h4 == rdx_rb_set_parent_color(h3, parent, node, RDX_RB_RED)
    IN  augment_rotate(h4, aug, parent, node)

\* Mutant: Case 3 ends in `continue`: the loop is entered once more.
insert_case3_left_continues(h, aug, parent, gparent, tmp) ==
    LET h0 == Stepped(h, "insert", "case 3", parent, gparent)
        h1 == Stored([h0 EXCEPT !.rb_left[gparent] = tmp])
        h2 == Stored([h1 EXCEPT !.rb_right[parent] = gparent])
        h3 == IF tmp # NULL
              THEN rdx_rb_set_parent_color(h2, tmp, gparent, RDX_RB_BLACK) ELSE h2
        h4 == __rdx_rb_rotate_set_parents(h3, gparent, parent, RDX_RB_RED)
    IN  insert_loop(augment_rotate(h4, aug, gparent, parent), aug,
                    h.rb_left[parent], parent)

\* parent == gparent->rb_left: Case 3 - right rotate at gparent
insert_case3_left(h, aug, parent, gparent, tmp) ==
    LET h0 == Stepped(h, "insert", "case 3", parent, gparent)
        h1 == Stored([h0 EXCEPT !.rb_left[gparent] = tmp])
        h2 == Stored([h1 EXCEPT !.rb_right[parent] = gparent])
        h3 == IF tmp # NULL
              THEN rdx_rb_set_parent_color(h2, tmp, gparent, RDX_RB_BLACK) ELSE h2
        h4 == __rdx_rb_rotate_set_parents(h3, gparent, parent, RDX_RB_RED)
    IN  augment_rotate(h4, aug, gparent, parent)

\* parent == gparent->rb_right: Case 2 - right rotate at parent
insert_case2_right(h, aug, node, parent) ==
    LET tmp == h.rb_right[node]
        h0 == Stepped(h, "insert", "case 2", node, parent)
        h1 == Stored([h0 EXCEPT !.rb_left[parent] = tmp])
        h2 == Stored([h1 EXCEPT !.rb_right[node] = parent])
        h3 == IF tmp # NULL
              THEN rdx_rb_set_parent_color(h2, tmp, parent, RDX_RB_BLACK) ELSE h2
        h4 == rdx_rb_set_parent_color(h3, parent, node, RDX_RB_RED)
    IN  augment_rotate(h4, aug, parent, node)

\* parent == gparent->rb_right: Case 3 - left rotate at gparent
insert_case3_right(h, aug, parent, gparent, tmp) ==
    LET h0 == Stepped(h, "insert", "case 3", parent, gparent)
        h1 == Stored([h0 EXCEPT !.rb_right[gparent] = tmp])
        h2 == Stored([h1 EXCEPT !.rb_left[parent] = gparent])
        h3 == IF tmp # NULL
              THEN rdx_rb_set_parent_color(h2, tmp, gparent, RDX_RB_BLACK) ELSE h2
        h4 == __rdx_rb_rotate_set_parents(h3, gparent, parent, RDX_RB_RED)
    IN  augment_rotate(h4, aug, gparent, parent)

insert_loop(top, aug, node, parent) ==
    LET h == Stepped(top, "insert", "iteration", node, parent) IN
    IF parent = NULL THEN rdx_rb_set_parent_color(h, node, NULL, RDX_RB_BLACK)
    ELSE IF rdx_rb_is_black(h, parent) THEN h
    ELSE
      LET gparent == rdx_rb_red_parent(h, parent) IN
      IF gparent = NULL THEN Fault(h)
      ELSE IF parent # h.rb_right[gparent]
      THEN \* parent == gparent->rb_left
        LET tmp == h.rb_right[gparent] IN
        IF tmp # NULL /\ rdx_rb_is_red(h, tmp)
        THEN LET c == insert_case1(h, parent, gparent, tmp)
             IN  insert_loop(c.h, aug, c.node, c.parent)
        ELSE IF node = h.rb_right[parent]
        THEN LET h2 == insert_case2_left(h, aug, node, parent)
             IN  insert_case3_left(h2, aug, node, gparent, h2.rb_right[node])
        ELSE insert_case3_left(h, aug, parent, gparent, h.rb_right[parent])
      ELSE
        LET tmp == h.rb_left[gparent] IN
        IF tmp # NULL /\ rdx_rb_is_red(h, tmp)
        THEN LET c == insert_case1(h, parent, gparent, tmp)
             IN  insert_loop(c.h, aug, c.node, c.parent)
        ELSE IF node = h.rb_left[parent]
        THEN LET h2 == insert_case2_right(h, aug, node, parent)
             IN  insert_case3_right(h2, aug, node, gparent, h2.rb_left[node])
        ELSE insert_case3_right(h, aug, parent, gparent, h.rb_left[parent])

__rdx_rb_insert(h, aug, node) ==
    insert_loop(h, aug, node, rdx_rb_red_parent(h, node))

rdx_rb_insert_color(h, node) == __rdx_rb_insert(h, FALSE, node)

__rdx_rb_insert_augmented(h, node) == __rdx_rb_insert(h, TRUE, node)

\* Mutant: the inserted node's ancestors are not propagated to.
insert_augmented_without_propagate(h, node) ==
    __rdx_rb_insert_augmented(h, node)

\* Mutant: the ancestors are propagated to before the tree is rebalanced.
insert_augmented_propagate_first(h, node) ==
    __rdx_rb_insert_augmented(augment_propagate(h, TRUE, node, NULL), node)

rdx_rb_insert_augmented(h, node) ==
    augment_propagate(__rdx_rb_insert_augmented(h, node), TRUE, node, NULL)

----------------------------------------------------------------------------
(* rbtree_augmented.h: __rdx_rb_erase_augmented, the splicing phase *)

\* The do-while of Case 3: walk to the leftmost node under node's right child.
\* Entered with successor = child and tmp = child->rb_left (not NULL).
RECURSIVE erase_find_successor(_, _, _)
erase_find_successor(h, successor, tmp) ==
    LET parent == successor
        successor2 == tmp
        tmp2 == h.rb_left[tmp]
    IN  IF tmp2 # NULL THEN erase_find_successor(h, successor2, tmp2)
        ELSE [parent |-> parent, successor |-> successor2]

\* Mutant: erasing a BLACK leaf asks for no rebalancing.
erase_splice_no_left_never_rebalances(h, aug, node, child) ==
    LET parent == h.parent[node]
        pc_color == h.color[node]
        h1 == __rdx_rb_change_child(h, node, child, parent)
        h2 == IF child # NULL
              THEN [h1 EXCEPT !.parent[child] = parent, !.color[child] = pc_color]
              ELSE h1
    IN  [h |-> augment_propagate(h2, aug, parent, NULL), rebalance |-> NULL]

\* Mutant: a childless node asks for rebalancing whatever its colour.
erase_splice_no_left_rebalances_red(h, aug, node, child) ==
    LET parent == h.parent[node]
        pc_color == h.color[node]
        h1 == __rdx_rb_change_child(h, node, child, parent)
        h2 == IF child # NULL
              THEN [h1 EXCEPT !.parent[child] = parent, !.color[child] = pc_color]
              ELSE h1
        rebalance == IF child # NULL THEN NULL ELSE parent
    IN  [h |-> augment_propagate(h2, aug, parent, NULL), rebalance |-> rebalance]

\* Case 1: node has no left child; child is node->rb_right (may be NULL)
erase_splice_no_left(h, aug, node, child) ==
    LET parent == h.parent[node]
        pc_color == h.color[node]
        h1 == __rdx_rb_change_child(h, node, child, parent)
        h2 == IF child # NULL
              THEN [h1 EXCEPT !.parent[child] = parent, !.color[child] = pc_color]
              ELSE h1
        rebalance == IF child # NULL THEN NULL
                     ELSE IF pc_color = RDX_RB_BLACK THEN parent ELSE NULL
    IN  [h |-> augment_propagate(h2, aug, parent, NULL), rebalance |-> rebalance]

\* Still case 1: node has a left child tmp and no right child
erase_splice_no_right(h, aug, node, tmp) ==
    LET parent == h.parent[node]
        h1 == [h EXCEPT !.parent[tmp] = h.parent[node], !.color[tmp] = h.color[node]]
        h2 == __rdx_rb_change_child(h1, node, tmp, parent)
    IN  [h |-> augment_propagate(h2, aug, parent, NULL), rebalance |-> NULL]

erase_splice_tail_by_victim_colour(h, aug, node, successor, parent, child2) ==
    LET tmp == h.rb_left[node]
        h1 == Stored([h EXCEPT !.rb_left[successor] = tmp])
        h2 == rdx_rb_set_parent(h1, tmp, successor)
        pc_parent == h2.parent[node]
        pc_color == h2.color[node]
        h3 == __rdx_rb_change_child(h2, node, successor, pc_parent)
        h4 == [h3 EXCEPT !.parent[successor] = pc_parent,
                         !.color[successor] = pc_color]
        h5 == IF child2 # NULL
              THEN rdx_rb_set_parent_color(h4, child2, parent, RDX_RB_BLACK)
              ELSE h4
        rebalance == IF child2 # NULL THEN NULL
                     ELSE IF pc_color = RDX_RB_BLACK THEN parent ELSE NULL
    IN  [h |-> augment_propagate(h5, aug, successor, NULL), rebalance |-> rebalance]

\* The common tail of Cases 2 and 3 (lines 211-226)
erase_splice_tail(h, aug, node, successor, parent, child2) ==
    LET tmp == h.rb_left[node]
        h1 == Stored([h EXCEPT !.rb_left[successor] = tmp])
        h2 == rdx_rb_set_parent(h1, tmp, successor)
        pc_parent == h2.parent[node]
        pc_color == h2.color[node]
        h3 == __rdx_rb_change_child(h2, node, successor, pc_parent)
        pc2_color == h3.color[successor]
        h4 == [h3 EXCEPT !.parent[successor] = pc_parent,
                         !.color[successor] = pc_color]
        h5 == IF child2 # NULL
              THEN rdx_rb_set_parent_color(h4, child2, parent, RDX_RB_BLACK)
              ELSE h4
        rebalance == IF child2 # NULL THEN NULL
                     ELSE IF pc2_color = RDX_RB_BLACK THEN parent ELSE NULL
    IN  [h |-> augment_propagate(h5, aug, successor, NULL), rebalance |-> rebalance]

\* Case 2: node's successor is its right child
erase_splice_right_child(h, aug, node, child) ==
    LET successor == child
        parent == successor
        child2 == h.rb_right[successor]
        h1 == augment_copy(h, aug, node, successor)
    IN  erase_splice_tail(h1, aug, node, successor, parent, child2)

\* Mutant: the successor's right child is not put in the successor's place.
erase_splice_deep_drops_child2(h, aug, node, child) ==
    LET f == erase_find_successor(h, child, h.rb_left[child])
        parent == f.parent
        successor == f.successor
        child2 == h.rb_right[successor]
        h1 == Stored([h EXCEPT !.rb_left[parent] = NULL])
        h2 == Stored([h1 EXCEPT !.rb_right[successor] = child])
        h3 == rdx_rb_set_parent(h2, child, successor)
        h4 == augment_copy(h3, aug, node, successor)
        h5 == augment_propagate(h4, aug, parent, successor)
    IN  erase_splice_tail(h5, aug, node, successor, parent, child2)

\* Case 3: node's successor is leftmost under node's right child subtree
erase_splice_deep(h, aug, node, child) ==
    LET f == erase_find_successor(h, child, h.rb_left[child])
        parent == f.parent
        successor == f.successor
        child2 == h.rb_right[successor]
        h1 == Stored([h EXCEPT !.rb_left[parent] = child2])
        h2 == Stored([h1 EXCEPT !.rb_right[successor] = child])
        h3 == rdx_rb_set_parent(h2, child, successor)
        h4 == augment_copy(h3, aug, node, successor)
        h5 == augment_propagate(h4, aug, parent, successor)
    IN  erase_splice_tail(h5, aug, node, successor, parent, child2)

__rdx_rb_erase_augmented(h, aug, node) ==
    LET child == h.rb_right[node]
        tmp == h.rb_left[node]
    IN  IF tmp = NULL THEN erase_splice_no_left(h, aug, node, child)
        ELSE IF child = NULL THEN erase_splice_no_right(h, aug, node, tmp)
        ELSE IF h.rb_left[child] = NULL
             THEN erase_splice_right_child(h, aug, node, child)
             ELSE erase_splice_deep(h, aug, node, child)

----------------------------------------------------------------------------
(* rbtree.c: ____rdx_rb_erase_color, the deletion colour-fixup loop *)

\* Mutant: the Case 1 rotation leaves parent BLACK.
erase_case1_left_parent_stays_black(h, aug, parent, sibling) ==
    LET tmp1 == h.rb_left[sibling]
        h0 == Stepped(h, "erase", "case 1", sibling, parent)
        h1 == Stored([h0 EXCEPT !.rb_right[parent] = tmp1])
        h2 == Stored([h1 EXCEPT !.rb_left[sibling] = parent])
    IN  IF tmp1 = NULL THEN Fault(h2)
        ELSE LET h3 == rdx_rb_set_parent_color(h2, tmp1, parent, RDX_RB_BLACK)
                 h4 == __rdx_rb_rotate_set_parents(h3, parent, sibling, RDX_RB_BLACK)
             IN  augment_rotate(h4, aug, parent, sibling)

\* node == parent->rb_left: Case 1 - left rotate at parent (sibling is red)
erase_case1_left(h, aug, parent, sibling) ==
    LET tmp1 == h.rb_left[sibling]
        h0 == Stepped(h, "erase", "case 1", sibling, parent)
        h1 == Stored([h0 EXCEPT !.rb_right[parent] = tmp1])
        h2 == Stored([h1 EXCEPT !.rb_left[sibling] = parent])
    IN  IF tmp1 = NULL THEN Fault(h2)
        ELSE LET h3 == rdx_rb_set_parent_color(h2, tmp1, parent, RDX_RB_BLACK)
                 h4 == __rdx_rb_rotate_set_parents(h3, parent, sibling, RDX_RB_RED)
             IN  augment_rotate(h4, aug, parent, sibling)

\* node == parent->rb_left: Case 3 - right rotate at sibling; tmp2 is
\* sibling->rb_left (red)
erase_case3_left(h, aug, parent, sibling, tmp2) ==
    LET tmp1 == h.rb_right[tmp2]
        h0 == Stepped(h, "erase", "case 3", sibling, parent)
        h1 == Stored([h0 EXCEPT !.rb_left[sibling] = tmp1])
        h2 == Stored([h1 EXCEPT !.rb_right[tmp2] = sibling])
        h3 == Stored([h2 EXCEPT !.rb_right[parent] = tmp2])
        h4 == IF tmp1 # NULL
              THEN rdx_rb_set_parent_color(h3, tmp1, sibling, RDX_RB_BLACK) ELSE h3
    IN  augment_rotate(h4, aug, sibling, tmp2)

\* node == parent->rb_left: Case 4 - left rotate at parent + colour flips;
\* tmp1 is sibling's right child
erase_case4_left(h, aug, parent, sibling, tmp1) ==
    LET tmp2 == h.rb_left[sibling]
        h0 == Stepped(h, "erase", "case 4", sibling, parent)
        h1 == Stored([h0 EXCEPT !.rb_right[parent] = tmp2])
        h2 == Stored([h1 EXCEPT !.rb_left[sibling] = parent])
    IN  IF tmp1 = NULL THEN Fault(h2)
        ELSE LET h3 == rdx_rb_set_parent_color(h2, tmp1, sibling, RDX_RB_BLACK)
                 h4 == IF tmp2 # NULL THEN rdx_rb_set_parent(h3, tmp2, parent) ELSE h3
                 h5 == __rdx_rb_rotate_set_parents(h4, parent, sibling, RDX_RB_BLACK)
             IN  augment_rotate(h5, aug, parent, sibling)

\* node == parent->rb_right: Case 1 - right rotate at parent (sibling is red)
erase_case1_right(h, aug, parent, sibling) ==
    LET tmp1 == h.rb_right[sibling]
        h0 == Stepped(h, "erase", "case 1", sibling, parent)
        h1 == Stored([h0 EXCEPT !.rb_left[parent] = tmp1])
        h2 == Stored([h1 EXCEPT !.rb_right[sibling] = parent])
    IN  IF tmp1 = NULL THEN Fault(h2)
        ELSE LET h3 == rdx_rb_set_parent_color(h2, tmp1, parent, RDX_RB_BLACK)
                 h4 == __rdx_rb_rotate_set_parents(h3, parent, sibling, RDX_RB_RED)
             IN  augment_rotate(h4, aug, parent, sibling)

\* node == parent->rb_right: Case 3 - rotate at sibling; tmp2 is
\* sibling->rb_right (red)
erase_case3_right(h, aug, parent, sibling, tmp2) ==
    LET tmp1 == h.rb_left[tmp2]
        h0 == Stepped(h, "erase", "case 3", sibling, parent)
        h1 == Stored([h0 EXCEPT !.rb_right[sibling] = tmp1])
        h2 == Stored([h1 EXCEPT !.rb_left[tmp2] = sibling])
        h3 == Stored([h2 EXCEPT !.rb_left[parent] = tmp2])
        h4 == IF tmp1 # NULL
              THEN rdx_rb_set_parent_color(h3, tmp1, sibling, RDX_RB_BLACK) ELSE h3
    IN  augment_rotate(h4, aug, sibling, tmp2)

\* node == parent->rb_right: Case 4 - rotate at parent + colour flips;
\* tmp1 is sibling's left child
erase_case4_right(h, aug, parent, sibling, tmp1) ==
    LET tmp2 == h.rb_right[sibling]
        h0 == Stepped(h, "erase", "case 4", sibling, parent)
        h1 == Stored([h0 EXCEPT !.rb_left[parent] = tmp2])
        h2 == Stored([h1 EXCEPT !.rb_right[sibling] = parent])
    IN  IF tmp1 = NULL THEN Fault(h2)
        ELSE LET h3 == rdx_rb_set_parent_color(h2, tmp1, sibling, RDX_RB_BLACK)
                 h4 == IF tmp2 # NULL THEN rdx_rb_set_parent(h3, tmp2, parent) ELSE h3
                 h5 == __rdx_rb_rotate_set_parents(h4, parent, sibling, RDX_RB_BLACK)
             IN  augment_rotate(h5, aug, parent, sibling)

\* Mutant: Case 2 moves up to parent whatever parent's colour.
erase_case2_moves_up_from_red(h, parent, sibling) ==
    LET h0 == Stepped(h, "erase", "case 2", sibling, parent)
        h1 == rdx_rb_set_parent_color(h0, sibling, parent, RDX_RB_RED)
        node == parent
        parent2 == rdx_rb_parent(h1, node)
    IN  [h |-> rdx_rb_set_black(h1, parent), again |-> parent2 # NULL,
         node |-> node, parent |-> parent2]

\* Case 2 - sibling colour flip.  Returns the heap and where the loop goes:
\* again = TRUE is the `continue` with the new node and parent.
erase_case2(h, parent, sibling) ==
    LET h0 == Stepped(h, "erase", "case 2", sibling, parent)
        h1 == rdx_rb_set_parent_color(h0, sibling, parent, RDX_RB_RED) IN
    IF rdx_rb_is_red(h1, parent)
    THEN [h |-> rdx_rb_set_black(h1, parent), again |-> FALSE,
          node |-> NULL, parent |-> parent]
    ELSE LET node == parent
             parent2 == rdx_rb_parent(h1, node)
         IN  [h |-> h1, again |-> parent2 # NULL, node |-> node, parent |-> parent2]

RECURSIVE erase_color_loop(_, _, _, _)
\* The part of one iteration after Case 1, on the side node == parent->rb_left
erase_color_left(h, aug, parent, sibling) ==
    IF sibling = NULL THEN Fault(h)
    ELSE
      LET tmp1 == h.rb_right[sibling] IN
      IF tmp1 = NULL \/ rdx_rb_is_black(h, tmp1)
      THEN LET tmp2 == h.rb_left[sibling] IN
           IF tmp2 = NULL \/ rdx_rb_is_black(h, tmp2)
           THEN LET c == erase_case2(h, parent, sibling)
                IN  IF c.again THEN erase_color_loop(c.h, aug, c.node, c.parent)
                    ELSE c.h
           ELSE LET h2 == erase_case3_left(h, aug, parent, sibling, tmp2)
                IN  erase_case4_left(h2, aug, parent, tmp2, sibling)
      ELSE erase_case4_left(h, aug, parent, sibling, tmp1)

\* The part of one iteration after Case 1, on the side node == parent->rb_right
erase_color_right(h, aug, parent, sibling) ==
    IF sibling = NULL THEN Fault(h)
    ELSE
      LET tmp1 == h.rb_left[sibling] IN
      IF tmp1 = NULL \/ rdx_rb_is_black(h, tmp1)
      THEN LET tmp2 == h.rb_right[sibling] IN
           IF tmp2 = NULL \/ rdx_rb_is_black(h, tmp2)
           THEN LET c == erase_case2(h, parent, sibling)
                IN  IF c.again THEN erase_color_loop(c.h, aug, c.node, c.parent)
                    ELSE c.h
           ELSE LET h2 == erase_case3_right(h, aug, parent, sibling, tmp2)
                IN  erase_case4_right(h2, aug, parent, tmp2, sibling)
      ELSE erase_case4_right(h, aug, parent, sibling, tmp1)

erase_color_loop(top, aug, node, parent) ==
    LET h == Stepped(top, "erase", "iteration", node, parent)
        sibling == h.rb_right[parent] IN
    IF node # sibling
    THEN \* node == parent->rb_left
      IF sibling = NULL THEN Fault(h)
      ELSE IF rdx_rb_is_red(h, sibling)
      THEN LET h2 == erase_case1_left(h, aug, parent, sibling)
           IN  IF h2.fault THEN h2
               ELSE erase_color_left(h2, aug, parent, h.rb_left[sibling])
      ELSE erase_color_left(h, aug, parent, sibling)
    ELSE
      LET sibling2 == h.rb_left[parent] IN
      IF sibling2 = NULL THEN Fault(h)
      ELSE IF rdx_rb_is_red(h, sibling2)
      THEN LET h2 == erase_case1_right(h, aug, parent, sibling2)
           IN  IF h2.fault THEN h2
               ELSE erase_color_right(h2, aug, parent, h.rb_right[sibling2])
      ELSE erase_color_right(h, aug, parent, sibling2)

____rdx_rb_erase_color(h, aug, parent) == erase_color_loop(h, aug, NULL, parent)

__rdx_rb_erase_color(h, parent) == ____rdx_rb_erase_color(h, TRUE, parent)

rdx_rb_erase(h, node) ==
    LET e == __rdx_rb_erase_augmented(h, FALSE, node) IN
    IF e.rebalance # NULL /\ ~e.h.fault
    THEN ____rdx_rb_erase_color(e.h, FALSE, e.rebalance)
    ELSE e.h

rdx_rb_erase_augmented(h, node) ==
    LET e == __rdx_rb_erase_augmented(h, TRUE, node) IN
    IF e.rebalance # NULL /\ ~e.h.fault
    THEN __rdx_rb_erase_color(e.h, e.rebalance)
    ELSE e.h

----------------------------------------------------------------------------
(* rbtree.c: traversal and the dual-order query API *)

RECURSIVE leftmost(_, _)
\* while (n->rb_left) n = n->rb_left;
leftmost(h, n) == IF h.rb_left[n] # NULL THEN leftmost(h, h.rb_left[n]) ELSE n

rdx_rb_first(h) == IF h.rb_node = NULL THEN NULL ELSE leftmost(h, h.rb_node)

RECURSIVE next_up(_, _)
\* while ((parent = rdx_rb_parent(node)) && node == parent->rb_right)
\*         node = parent;
next_up(h, node) ==
    LET parent == rdx_rb_parent(h, node) IN
    IF parent # NULL /\ node = h.rb_right[parent] THEN next_up(h, parent)
    ELSE parent

\* Mutant: the successor in the right subtree is taken to be the right child.
next_without_descent(h, node) ==
    IF RDX_RB_EMPTY_NODE(h, node) THEN NULL
    ELSE IF h.rb_right[node] # NULL THEN h.rb_right[node]
    ELSE next_up(h, node)

rdx_rb_next(h, node) ==
    IF RDX_RB_EMPTY_NODE(h, node) THEN NULL
    ELSE IF h.rb_right[node] # NULL THEN leftmost(h, h.rb_right[node])
    ELSE next_up(h, node)

RECURSIVE rightmost(_, _)
\* while (n->rb_right) n = n->rb_right;
rightmost(h, n) == IF h.rb_right[n] # NULL THEN rightmost(h, h.rb_right[n]) ELSE n

rdx_rb_last(h) == IF h.rb_node = NULL THEN NULL ELSE rightmost(h, h.rb_node)

\* Mutant: the climb goes on while the node is a right child, as in
\* rdx_rb_next.
RECURSIVE prev_up_while_right_child(_, _)
prev_up_while_right_child(h, node) ==
    LET parent == rdx_rb_parent(h, node) IN
    IF parent # NULL /\ node = h.rb_right[parent]
    THEN prev_up_while_right_child(h, parent)
    ELSE parent

RECURSIVE prev_up(_, _)
\* while ((parent = rdx_rb_parent(node)) && node == parent->rb_left)
\*         node = parent;
prev_up(h, node) ==
    LET parent == rdx_rb_parent(h, node) IN
    IF parent # NULL /\ node = h.rb_left[parent] THEN prev_up(h, parent)
    ELSE parent

rdx_rb_prev(h, node) ==
    IF RDX_RB_EMPTY_NODE(h, node) THEN NULL
    ELSE IF h.rb_left[node] # NULL THEN rightmost(h, h.rb_left[node])
    ELSE prev_up(h, node)

\* Mutant: the victim's right child keeps its parent reference.
replace_node_left_only(h, victim, new) ==
    LET parent == rdx_rb_parent(h, victim)
        h1 == __rdx_rb_change_child(h, victim, new, parent)
        h2 == IF h1.rb_left[victim] # NULL
              THEN rdx_rb_set_parent(h1, h1.rb_left[victim], new) ELSE h1
    IN  [h2 EXCEPT !.parent[new] = h2.parent[victim],
                   !.color[new] = h2.color[victim],
                   !.rb_left[new] = h2.rb_left[victim],
                   !.rb_right[new] = h2.rb_right[victim]]

rdx_rb_replace_node(h, victim, new) ==
    LET parent == rdx_rb_parent(h, victim)
        h1 == __rdx_rb_change_child(h, victim, new, parent)
        h2 == IF h1.rb_left[victim] # NULL
              THEN rdx_rb_set_parent(h1, h1.rb_left[victim], new) ELSE h1
        h3 == IF h2.rb_right[victim] # NULL
              THEN rdx_rb_set_parent(h2, h2.rb_right[victim], new) ELSE h2
    \* *new = *victim
    IN  Stored([h3 EXCEPT !.parent[new] = h3.parent[victim],
                          !.color[new] = h3.color[victim],
                          !.rb_left[new] = h3.rb_left[victim],
                          !.rb_right[new] = h3.rb_right[victim]])

\* Mutant: the descent follows left children only.
RECURSIVE left_deepest_node_left_only(_, _)
left_deepest_node_left_only(h, node) ==
    IF h.rb_left[node] # NULL THEN left_deepest_node_left_only(h, h.rb_left[node])
    ELSE node

RECURSIVE rdx_rb_left_deepest_node(_, _)
rdx_rb_left_deepest_node(h, node) ==
    IF h.rb_left[node] # NULL THEN rdx_rb_left_deepest_node(h, h.rb_left[node])
    ELSE IF h.rb_right[node] # NULL
    THEN rdx_rb_left_deepest_node(h, h.rb_right[node])
    ELSE node

rdx_rb_next_postorder(h, node) ==
    IF node = NULL THEN NULL
    ELSE LET parent == rdx_rb_parent(h, node) IN
         IF parent # NULL /\ node = h.rb_left[parent] /\ h.rb_right[parent] # NULL
         THEN rdx_rb_left_deepest_node(h, h.rb_right[parent])
         ELSE parent

rdx_rb_first_postorder(h) ==
    IF h.rb_node = NULL THEN NULL ELSE rdx_rb_left_deepest_node(h, h.rb_node)

\* The nodes rdx_rb_left_deepest_node dereferences
RECURSIVE left_deepest_node_reads(_, _)
left_deepest_node_reads(h, node) ==
    {node} \cup
    (IF h.rb_left[node] # NULL THEN left_deepest_node_reads(h, h.rb_left[node])
     ELSE IF h.rb_right[node] # NULL
     THEN left_deepest_node_reads(h, h.rb_right[node])
     ELSE {})

\* The nodes rdx_rb_next_postorder dereferences: node for its parent, the
\* parent for its children, and the descent below the parent's right child.
next_postorder_reads(h, node) ==
    IF node = NULL THEN {}
    ELSE LET parent == rdx_rb_parent(h, node) IN
         {node} \cup
         (IF parent = NULL THEN {}
          ELSE {parent} \cup
               (IF node = h.rb_left[parent] /\ h.rb_right[parent] # NULL
                THEN left_deepest_node_reads(h, h.rb_right[parent])
                ELSE {}))

\* Mutant: the body frees pos before the next node is computed.
postorder_step_frees_first(h, live, pos) ==
    LET freed == live \ {pos} IN
    [n |-> rdx_rb_next_postorder(h, pos),
     live |-> freed,
     fault |-> ~(next_postorder_reads(h, pos) \subseteq freed)]

\* One iteration of rdx_rbtree_postorder_for_each_entry_safe whose body frees
\* pos: n is computed from pos, then the body runs, then pos = n.  live is
\* the set of records not yet freed; fault tells that a freed one was read.
rdx_rbtree_postorder_for_each_entry_safe(h, live, pos) ==
    [n |-> rdx_rb_next_postorder(h, pos),
     live |-> live \ {pos},
     fault |-> ~(next_postorder_reads(h, pos) \subseteq live)]

\* Mutant: the search compares with the weak comparator.
RECURSIVE find_loop_weak(_, _, _)
find_loop_weak(h, elem, node) ==
    IF node = NULL THEN NULL
    ELSE LET result == weak_compare(elem, node) IN
         IF result < 0 THEN find_loop_weak(h, elem, h.rb_left[node])
         ELSE IF result > 0 THEN find_loop_weak(h, elem, h.rb_right[node])
         ELSE node

\* Mutant: an equal node is passed by to the right.
find_step_right_on_equal(h, elem, node) ==
    IF node = NULL THEN [done |-> TRUE, ret |-> NULL, node |-> NULL]
    ELSE LET result == strict_compare(elem, node) IN
         IF result < 0
         THEN [done |-> FALSE, ret |-> NULL, node |-> h.rb_left[node]]
         ELSE [done |-> FALSE, ret |-> NULL, node |-> h.rb_right[node]]

\* One test of `while (node)` and the body it guards, for a reader that is
\* not alone: h holds the child references as they are at this moment.
find_step(h, elem, node) ==
    IF node = NULL THEN [done |-> TRUE, ret |-> NULL, node |-> NULL]
    ELSE LET result == strict_compare(elem, node) IN
         IF result < 0
         THEN [done |-> FALSE, ret |-> NULL, node |-> h.rb_left[node]]
         ELSE IF result > 0
         THEN [done |-> FALSE, ret |-> NULL, node |-> h.rb_right[node]]
         ELSE [done |-> TRUE, ret |-> node, node |-> node]

RECURSIVE find_loop(_, _, _)
find_loop(h, elem, node) ==
    IF node = NULL THEN NULL
    ELSE LET result == strict_compare(elem, node) IN
         IF result < 0 THEN find_loop(h, elem, h.rb_left[node])
         ELSE IF result > 0 THEN find_loop(h, elem, h.rb_right[node])
         ELSE node

rdx_rb_find(h, elem) == find_loop(h, elem, h.rb_node)

\* Mutant: a zero comparison descends to the right instead of failing.
RECURSIVE insert_descend_past_equal(_, _, _, _)
insert_descend_past_equal(h, elem, new, parent) ==
    LET cur == CASE new.slot = "root"  -> h.rb_node
                 [] new.slot = "left"  -> h.rb_left[new.owner]
                 [] new.slot = "right" -> h.rb_right[new.owner]
    IN  IF cur = NULL THEN [found |-> FALSE, new |-> new, parent |-> parent]
        ELSE IF strict_compare(elem, cur) < 0
        THEN insert_descend_past_equal(h, elem, [slot |-> "left", owner |-> cur], cur)
        ELSE insert_descend_past_equal(h, elem, [slot |-> "right", owner |-> cur], cur)

RECURSIVE insert_descend(_, _, _, _)
\* The descent of rdx_rb_insert: new names the slot, parent the node above it.
insert_descend(h, elem, new, parent) ==
    LET cur == CASE new.slot = "root"  -> h.rb_node
                 [] new.slot = "left"  -> h.rb_left[new.owner]
                 [] new.slot = "right" -> h.rb_right[new.owner]
    IN  IF cur = NULL THEN [found |-> FALSE, new |-> new, parent |-> parent]
        ELSE LET result == strict_compare(elem, cur) IN
             IF result < 0
             THEN insert_descend(h, elem, [slot |-> "left", owner |-> cur], cur)
             ELSE IF result > 0
             THEN insert_descend(h, elem, [slot |-> "right", owner |-> cur], cur)
             ELSE [found |-> TRUE, new |-> new, parent |-> cur]

rdx_rb_insert(h, elem) ==
    LET d == insert_descend(h, elem, [slot |-> "root", owner |-> NULL], NULL) IN
    IF d.found THEN [h |-> h, ret |-> NULL]
    ELSE [h |-> rdx_rb_link_node(h, elem, d.parent, d.new), ret |-> elem]

\* Mutant: only a strictly smaller node is recorded as a candidate.
RECURSIVE rightmost_less_loop(_, _, _, _)
rightmost_less_loop(h, elem, node, result_node) ==
    IF node = NULL THEN result_node
    ELSE LET result == weak_compare(node, elem) IN
         IF result < 0
         THEN rightmost_less_loop(h, elem, h.rb_right[node], node)
         ELSE rightmost_less_loop(h, elem, h.rb_left[node], result_node)

RECURSIVE rightmost_less_equiv_loop(_, _, _, _)
rightmost_less_equiv_loop(h, elem, node, result_node) ==
    IF node = NULL THEN result_node
    ELSE LET result == weak_compare(node, elem) IN
         IF result < 0 \/ result = 0
         THEN rightmost_less_equiv_loop(h, elem, h.rb_right[node], node)
         ELSE rightmost_less_equiv_loop(h, elem, h.rb_left[node], result_node)

rdx_rb_rightmost_less_equiv(h, elem) ==
    rightmost_less_equiv_loop(h, elem, h.rb_node, NULL)

\* Mutant: only a strictly greater node is recorded as a candidate.
RECURSIVE leftmost_greater_loop(_, _, _, _)
leftmost_greater_loop(h, elem, node, result_node) ==
    IF node = NULL THEN result_node
    ELSE LET result == weak_compare(node, elem) IN
         IF result > 0
         THEN leftmost_greater_loop(h, elem, h.rb_left[node], node)
         ELSE leftmost_greater_loop(h, elem, h.rb_right[node], result_node)

RECURSIVE leftmost_greater_equiv_loop(_, _, _, _)
leftmost_greater_equiv_loop(h, elem, node, result_node) ==
    IF node = NULL THEN result_node
    ELSE LET result == weak_compare(node, elem) IN
         IF result > 0 \/ result = 0
         THEN leftmost_greater_equiv_loop(h, elem, h.rb_left[node], node)
         ELSE leftmost_greater_equiv_loop(h, elem, h.rb_right[node], result_node)

rdx_rb_leftmost_greater_equiv(h, elem) ==
    leftmost_greater_equiv_loop(h, elem, h.rb_node, NULL)

----------------------------------------------------------------------------
(* The caller.  A node handed to an insertion is a detached record the      *)
(* caller does not hold in the tree; a node handed to erase is one it does. *)
(* The caller of Spec and SpecAug frees a record as soon as it has erased   *)
(* it, and the record's next use is as a newly constructed, detached node.  *)
(* The library never reads a field of a record that is not in the tree      *)
(* (rdx_rb_link_node overwrites all of them), so what a freed record held   *)
(* cannot reach the tree.  The caller of SpecRoundTrip keeps the records it *)
(* has erased as rdx_rb_erase left them.                                    *)

\* A new record: a payload of one.  malloc leaves its rb fields undetermined;
\* nothing reads them before rdx_rb_link_node writes all three, and the model
\* holds them at the values of a cleared, childless node.
construct_node(h, n) ==
    LET h1 == [h EXCEPT !.rb_left[n] = NULL, !.rb_right[n] = NULL,
                        !.payload[n] = construct_payload]
    IN  RDX_RB_CLEAR_NODE(h1, n)

\* free(data): what the record held is gone.  Its storage is next seen as the
\* record construct_node hands out.
free_node(h, data) == construct_node(h, data)

Init ==
    /\ rb_node = NULL
    /\ rb_parent = [n \in Nodes |-> n]          \* RDX_RB_CLEAR_NODE
    /\ rb_color = [n \in Nodes |-> RDX_RB_RED]
    /\ rb_left = [n \in Nodes |-> NULL]
    /\ rb_right = [n \in Nodes |-> NULL]
    /\ payload = [n \in Nodes |-> construct_payload]
    /\ fault = FALSE
    /\ resident = {}
    /\ status = "idle"
    /\ last = NULL
    /\ calls = <<>>
    /\ pending = <<>>
    /\ finder = [pc |-> "idle", elem |-> NULL, node |-> NULL, ret |-> NULL,
                 overlapped |-> FALSE]     \* no find is running

\* my_node_mmap_insert on an unaugmented tree: rdx_rb_insert, and on success
\* the rebalancing of the linked node.
my_node_insert(h, elem) ==
    LET i == rdx_rb_insert(h, elem) IN
    IF i.ret = NULL THEN i
    ELSE [h |-> rdx_rb_insert_color(i.h, elem), ret |-> i.ret]

\* The same on an augmented tree.
my_node_insert_augmented(h, elem) ==
    LET i == rdx_rb_insert(h, elem) IN
    IF i.ret = NULL THEN i
    ELSE [h |-> rdx_rb_insert_augmented(i.h, elem), ret |-> i.ret]

\* An insertion returned r: the heap it left and the pointer it returned.
Inserted(n, r) ==
    /\ Store(r.h)
    /\ status' = IF r.ret = NULL THEN "rejected" ELSE "inserted"
    /\ resident' = IF r.ret = NULL THEN resident ELSE resident \cup {n}
    /\ last' = NULL
    /\ calls' = <<>>
    /\ UNCHANGED <<pending, finder>>

\* An erase of n left heap h.
Erased(n, h) ==
    /\ Store(h)
    /\ status' = "erased"
    /\ resident' = resident \ {n}
    /\ last' = NULL
    /\ calls' = <<>>
    /\ UNCHANGED <<pending, finder>>

Insert(n) ==
    /\ ~fault
    /\ n \notin resident
    /\ Inserted(n, my_node_insert(Heap, n))

Erase(n) ==
    /\ ~fault
    /\ n \in resident
    /\ Erased(n, free_node(rdx_rb_erase(Heap, n), n))

\* rdx_rb_insert alone, as rbtree.c defines it
LinkInsert(n) ==
    /\ ~fault
    /\ n \notin resident
    /\ Inserted(n, rdx_rb_insert(Heap, n))

AugInsert(n) ==
    /\ ~fault
    /\ n \notin resident
    /\ Inserted(n, my_node_insert_augmented(Heap, n))

AugErase(n) ==
    /\ ~fault
    /\ n \in resident
    /\ Erased(n, free_node(rdx_rb_erase_augmented(Heap, n), n))

\* The round trip: the nodes 1..RoundTripNodes, distinct under the strict
\* comparator, are inserted in any order; then all of them are erased in any
\* order, and the erased records are kept.
FillInsert(n) ==
    /\ ~fault
    /\ status # "erased"
    /\ n \in RoundTrip \ resident
    /\ Inserted(n, my_node_insert(Heap, n))

DrainErase(n) ==
    /\ ~fault
    /\ status = "erased" \/ resident = RoundTrip
    /\ n \in resident
    /\ Erased(n, rdx_rb_erase(Heap, n))

\* The caller replaces a resident victim by a record it holds outside the
\* tree whose keys order against every other resident node as the victim's
\* do, and frees the victim.
Replace(victim, new) ==
    /\ ~fault
    /\ victim \in resident
    /\ new \notin resident
    /\ \A k \in resident \ {victim} :
          /\ strict_compare(new, k) # 0
          /\ strict_compare(new, k) = strict_compare(victim, k)
    /\ Store(free_node(rdx_rb_replace_node(Heap, victim, new), victim))
    /\ status' = "replaced"
    /\ resident' = (resident \ {victim}) \cup {new}
    /\ last' = new
    /\ calls' = <<>>
    /\ UNCHANGED <<pending, finder>>

Next == \E n \in Nodes : Insert(n) \/ Erase(n)

Spec == Init /\ [][Next]_vars

\* Only rdx_rb_insert is called.
NextLink == \E n \in Nodes : LinkInsert(n)

SpecLink == Init /\ [][NextLink]_vars

\* The tree is augmented with the subtree count.
\* A caller that inserts and erases the records 1..RaceNodes, and beside it
\* an rdx_rb_find that takes no lock.  An insertion that starts while the
\* find runs makes its stores to the child and root references one at a time
\* (InsertStore); the find reads one reference at a time (FindStep).  The
\* tree variables hold the tree the running insertion ends with, pending the
\* references as they are until its stores are made.
Visible ==
    IF pending = <<>>
    THEN [rb_node |-> rb_node, rb_left |-> rb_left, rb_right |-> rb_right]
    ELSE Head(pending)

FinderIdle == [pc |-> "idle", elem |-> NULL, node |-> NULL, ret |-> NULL,
               overlapped |-> FALSE]

QuietInsert(n) ==
    /\ finder.pc = "idle"
    /\ pending = <<>>
    /\ Insert(n)

QuietErase(n) ==
    /\ finder.pc = "idle"
    /\ pending = <<>>
    /\ Erase(n)

\* The node the running insertion is about
Inserting == IF pending = <<>> THEN {} ELSE {last}

\* rdx_rb_find is called for a record whose keys are in the tree (and were
\* before the running insertion was called); it reads root->rb_node.
FindCall(elem) ==
    /\ ~fault
    /\ finder.pc = "idle"
    /\ \E n \in resident \ Inserting : strict_compare(elem, n) = 0
    /\ finder' = [pc |-> "running", elem |-> elem, node |-> Visible.rb_node,
                  ret |-> NULL, overlapped |-> pending # <<>>]
    /\ UNCHANGED <<rb_node, rb_parent, rb_color, rb_left, rb_right, payload,
                   fault, resident, status, last, calls, pending>>

FindStep ==
    /\ finder.pc = "running"
    /\ LET s == find_step(Visible, finder.elem, finder.node) IN
       finder' = [finder EXCEPT !.pc = IF s.done THEN "done" ELSE "running",
                                !.node = s.node, !.ret = s.ret]
    /\ UNCHANGED <<rb_node, rb_parent, rb_color, rb_left, rb_right, payload,
                   fault, resident, status, last, calls, pending>>

FindReturn ==
    /\ finder.pc = "done"
    /\ finder' = FinderIdle
    /\ UNCHANGED <<rb_node, rb_parent, rb_color, rb_left, rb_right, payload,
                   fault, resident, status, last, calls, pending>>

\* An insertion is called while the find runs.
RacingInsert(n) ==
    /\ ~fault
    /\ finder.pc = "running"
    /\ pending = <<>>
    /\ n \notin resident
    /\ LET r == my_node_insert(Heap, n) IN
       /\ Store(r.h)
       /\ status' = IF r.ret = NULL THEN "rejected" ELSE "inserted"
       /\ resident' = IF r.ret = NULL THEN resident ELSE resident \cup {n}
       /\ pending' = IF r.ret = NULL THEN <<>>
                     ELSE <<Visible>> \o SubSeq(r.h.stores, 1, Len(r.h.stores) - 1)
       /\ finder' = [finder EXCEPT !.overlapped = @ \/ r.ret # NULL]
    /\ last' = n
    /\ UNCHANGED calls

\* The running insertion makes its next store.
InsertStore ==
    /\ pending # <<>>
    /\ pending' = Tail(pending)
    /\ UNCHANGED <<rb_node, rb_parent, rb_color, rb_left, rb_right, payload,
                   fault, resident, status, last, calls, finder>>

NextRace ==
    \/ \E n \in Racing : QuietInsert(n) \/ QuietErase(n) \/ RacingInsert(n)
    \/ \E elem \in Racing : FindCall(elem)
    \/ FindStep
    \/ FindReturn
    \/ InsertStore

SpecRace == Init /\ [][NextRace]_vars

\* The caller that rebalances a tree of records with pairwise distinct keys
NextRebalance == \E n \in Distinct : Insert(n) \/ Erase(n)

SpecRebalance == Init /\ [][NextRebalance]_vars

NextAug == \E n \in Nodes : AugInsert(n) \/ AugErase(n)

SpecAug == Init /\ [][NextAug]_vars

NextRoundTrip == \E n \in Nodes : FillInsert(n) \/ DrainErase(n)

SpecRoundTrip == Init /\ [][NextRoundTrip]_vars

\* Insertions, erases and in-place replacements of the records 1..ReplaceNodes
NextReplace ==
    \/ \E n \in Replaceable : Insert(n) \/ Erase(n)
    \/ \E victim, new \in Replaceable : Replace(victim, new)

SpecReplace == Init /\ [][NextReplace]_vars

\* rdx_rb_insert alone and rdx_rb_erase, on the records 1..LinkedNodes
NextLinkErase == \E n \in Linked : LinkInsert(n) \/ Erase(n)

SpecLinkErase == Init /\ [][NextLinkErase]_vars

\* Augmented insertions and erases and in-place replacements of the records
\* 1..ReplaceNodes
NextAugReplace ==
    \/ \E n \in Replaceable : AugInsert(n) \/ AugErase(n)
    \/ \E victim, new \in Replaceable : Replace(victim, new)

SpecAugReplace == Init /\ [][NextAugReplace]_vars

\* The caller builds a tree of the records 1..TeardownNodes and tears it down
\* in postorder, freeing each node as it is yielded and modifying no link.
\* resident is then the set of records not yet freed and last the cursor.
TeardownStart ==
    /\ ~fault
    /\ status \notin {"teardown", "torn down"}
    /\ rb_node # NULL
    /\ status' = "teardown"
    /\ last' = rdx_rb_first_postorder(Heap)
    /\ UNCHANGED <<rb_node, rb_parent, rb_color, rb_left, rb_right, payload,
                   fault, resident, calls, pending, finder>>

TeardownStep ==
    /\ ~fault
    /\ status = "teardown"
    /\ LET s == rdx_rbtree_postorder_for_each_entry_safe(Heap, resident, last) IN
       /\ fault' = s.fault
       /\ resident' = s.live
       /\ last' = s.n
       /\ status' = IF s.n = NULL THEN "torn down" ELSE "teardown"
    /\ UNCHANGED <<rb_node, rb_parent, rb_color, rb_left, rb_right, payload,
                   calls, pending, finder>>

BuildInsert(n) ==
    /\ status \notin {"teardown", "torn down"}
    /\ Insert(n)

BuildErase(n) ==
    /\ status \notin {"teardown", "torn down"}
    /\ Erase(n)

NextTeardown ==
    \/ \E n \in TornDown : BuildInsert(n) \/ BuildErase(n)
    \/ TeardownStart
    \/ TeardownStep

SpecTeardown == Init /\ [][NextTeardown]_vars

\* The augmented tree of the records 1..ObservedNodes, with the callbacks of
\* the caller's last call on record: each call of the log h.calls with its
\* arguments and whether the links it saw are those the call returned with.
Observed(h) ==
    [i \in 1..Len(h.calls) |->
        LET c == h.calls[i] IN
        [call |-> c.call, a |-> c.a, b |-> c.b,
         final |-> /\ c.rb_node = h.rb_node
                   /\ c.rb_left = h.rb_left
                   /\ c.rb_right = h.rb_right]]

ObservedInsert(n) ==
    /\ ~fault
    /\ n \in Observable \ resident
    /\ LET r == my_node_insert_augmented(Heap, n) IN
       /\ Store(r.h)
       /\ status' = IF r.ret = NULL THEN "rejected" ELSE "inserted"
       /\ resident' = IF r.ret = NULL THEN resident ELSE resident \cup {n}
       /\ calls' = Observed(r.h)
       /\ UNCHANGED <<pending, finder>>
    /\ last' = n

ObservedErase(n) ==
    /\ ~fault
    /\ n \in resident
    /\ LET h == rdx_rb_erase_augmented(Heap, n) IN
       /\ Store(free_node(h, n))
       /\ calls' = Observed(h)
       /\ UNCHANGED <<pending, finder>>
    /\ status' = "erased"
    /\ resident' = resident \ {n}
    /\ last' = n

NextObserved == \E n \in Observable : ObservedInsert(n) \/ ObservedErase(n)

SpecObserved == Init /\ [][NextObserved]_vars

----------------------------------------------------------------------------
(* What the properties are stated with: the tree as the state holds it and  *)
(* the caller's bookkeeping.                                                *)

IsRed(n) == n # NULL /\ rb_color[n] = RDX_RB_RED

Blackness(n) == IF rb_color[n] = RDX_RB_BLACK THEN 1 ELSE 0

\* The number of BLACK nodes on every path from n down to an absent child,
\* or -1 when two such paths disagree (or a path is longer than any tree's).
RECURSIVE BlackHeight(_, _)
BlackHeight(n, fuel) ==
    IF n = NULL THEN 0
    ELSE IF fuel = 0 THEN -1
    ELSE LET l == BlackHeight(rb_left[n], fuel - 1)
             r == BlackHeight(rb_right[n], fuel - 1)
         IN  IF l < 0 \/ r < 0 \/ l # r THEN -1 ELSE l + Blackness(n)

RootIsBlack == rb_node # NULL => rb_color[rb_node] = RDX_RB_BLACK

NoRedRed ==
    \A n \in resident :
        IsRed(n) => ~IsRed(rb_left[n]) /\ ~IsRed(rb_right[n])

\* The two comparators' results for every pair of records
StrictOrder == [l \in Nodes |-> [r \in Nodes |-> strict_compare(l, r)]]

WeakOrder == [l \in Nodes |-> [r \in Nodes |-> weak_compare(l, r)]]

\* Resident nodes that compare zero to the probe under the strict comparator
StrictEquals(e) == {m \in resident : StrictOrder[e][m] = 0}

\* Resident nodes whose weak comparison to the probe is <= 0
WeakLessEquiv(e) == {m \in resident : WeakOrder[m][e] <= 0}

\* Resident nodes whose weak comparison to the probe is >= 0
WeakGreaterEquiv(e) == {m \in resident : WeakOrder[m][e] >= 0}

\* rdx_rb_first, then rdx_rb_next until none (at most fuel nodes)
RECURSIVE WalkFrom(_, _)
WalkFrom(n, fuel) ==
    IF n = NULL \/ fuel = 0 THEN <<>>
    ELSE <<n>> \o WalkFrom(rdx_rb_next(Heap, n), fuel - 1)

Walk == WalkFrom(rdx_rb_first(Heap), NumNodes + 1)

\* rdx_rb_first_postorder, then rdx_rb_next_postorder until none
RECURSIVE PostorderFrom(_, _)
PostorderFrom(n, fuel) ==
    IF n = NULL \/ fuel = 0 THEN <<>>
    ELSE <<n>> \o PostorderFrom(rdx_rb_next_postorder(Heap, n), fuel - 1)

Postorder == PostorderFrom(rdx_rb_first_postorder(Heap), NumNodes + 1)

\* The resident node right after n in strict order, NULL when n is the last
Successor(n) ==
    LET later == {k \in resident : StrictOrder[n][k] < 0} IN
    IF later = {} THEN NULL
    ELSE CHOOSE k \in later : \A j \in later \ {k} : StrictOrder[k][j] < 0

\* The resident node right before n in strict order, NULL when n is the first
Predecessor(n) ==
    LET earlier == {k \in resident : StrictOrder[k][n] < 0} IN
    IF earlier = {} THEN NULL
    ELSE CHOOSE k \in earlier : \A j \in earlier \ {k} : StrictOrder[j][k] < 0

\* n's stored count is 1 plus the stored counts of its children
ConsistentAt(n) ==
    payload[n] = 1 + (IF rb_left[n] # NULL THEN payload[rb_left[n]] ELSE 0)
                   + (IF rb_right[n] # NULL THEN payload[rb_right[n]] ELSE 0)

\* n and the nodes above it
RECURSIVE UpFrom(_, _)
UpFrom(n, fuel) ==
    IF n = NULL \/ fuel = 0 THEN {} ELSE {n} \cup UpFrom(rb_parent[n], fuel - 1)

----------------------------------------------------------------------------
(* The claims *)

\* C1: when a call of rdx_rb_insert that linked its node returns, the root is
\* BLACK, no RED node has a RED child and all paths from the root hold the
\* same number of BLACK nodes.
C1_InsertRestoresRedBlack ==
    status = "inserted" =>
        /\ rb_color[rb_node] = RDX_RB_BLACK
        /\ \A n \in resident : ~(IsRed(n) /\ IsRed(rb_parent[n]))
        /\ BlackHeight(rb_node, NumNodes) >= 0

\* C2: after every sequence of insertions (rdx_rb_insert's descent and link,
\* then rdx_rb_insert_color) and rdx_rb_erase calls, the root, if present, is
\* BLACK and no RED node has a RED child.
C2_RootBlackNoRedRed == RootIsBlack /\ NoRedRed

\* A tree of six or more nodes, some of them RED, left by an erase.
C2_Witness ==
    /\ status = "erased"
    /\ Cardinality(resident) >= 6
    /\ \E n \in resident : IsRed(n) /\ rb_parent[n] # rb_node

\* C3: after every such sequence, every path from any resident node down to
\* an absent child passes through the same number of BLACK nodes.
C3_BlackHeight == \A n \in resident : BlackHeight(n, NumNodes) >= 0

\* An erase left a tree of black height 3 with RED and BLACK nodes.
C3_Witness ==
    /\ status = "erased"
    /\ BlackHeight(rb_node, NumNodes) = 3
    /\ \E n \in resident : IsRed(n)

\* C4: with the subtree-count callbacks, after every sequence of augmented
\* insertions and erases every resident node's stored count is 1 plus the
\* stored counts of its current children.
C4_AugmentConsistent ==
    \A n \in resident :
        payload[n] = 1 + (IF rb_left[n] # NULL THEN payload[rb_left[n]] ELSE 0)
                       + (IF rb_right[n] # NULL THEN payload[rb_right[n]] ELSE 0)

\* An augmented erase left a tree whose root counts seven nodes and whose
\* children count two or more each.
C4_Witness ==
    /\ status = "erased"
    /\ rb_node # NULL /\ payload[rb_node] = 7
    /\ \A c \in {rb_left[rb_node], rb_right[rb_node]} : c # NULL /\ payload[c] >= 2

\* C5: walking rdx_rb_first, then rdx_rb_next until none, yields nodes in
\* strictly increasing strict-comparator order, as many as were successfully
\* inserted and not erased.
C5_WalkSortedAndComplete ==
    LET w == Walk IN
    /\ \A i \in 1..(Len(w) - 1) : StrictOrder[w[i]][w[i + 1]] < 0
    /\ Len(w) = Cardinality(resident)

\* After an erase the walk still yields six or more nodes.
C5_Witness ==
    /\ status = "erased"
    /\ Cardinality(resident) >= 6
    /\ Len(Walk) = Cardinality(resident)

\* C6: a call of rdx_rb_insert with a node that compares zero to a resident
\* node returns NULL and changes nothing: root reference, every node's parent,
\* colour and children, and the set of nodes in the tree.
C6_DuplicateRejected ==
    [][\A n \in Nodes :
          (StrictEquals(n) # {} /\ Insert(n)) =>
              /\ status' = "rejected"
              /\ UNCHANGED <<rb_node, rb_parent, rb_color, rb_left, rb_right,
                             resident>>]_vars

\* A duplicate was handed to a tree of six or more nodes and rejected.
C6_Witness ==
    /\ status = "rejected"
    /\ Cardinality(resident) >= 6
    /\ \E n \in Nodes \ resident :
         StrictEquals(n) # {} /\ RDX_RB_EMPTY_NODE(Heap, n)

\* C7: once the N inserted nodes have all been erased the tree is empty:
\* the root reference is none.
C7_RoundTripEmpty ==
    (status = "erased" /\ resident = {}) => RDX_RB_EMPTY_ROOT(Heap)

\* All of the round trip's nodes have been inserted and then erased.
C7_Witness ==
    /\ status = "erased"
    /\ resident = {}
    /\ rb_node = NULL

\* C8: every node that rdx_rb_erase has erased reports itself detached; in
\* particular all N nodes do once all of them have been erased.
C8_ErasedNodeDetached ==
    status = "erased" =>
        \A n \in RoundTrip \ resident : RDX_RB_EMPTY_NODE(Heap, n)

\* C9: rdx_rb_find returns the one resident node that compares zero to the
\* probe, and NULL when there is none.
C9_FindCorrect ==
    LET h == Heap IN
    \A e \in Nodes :
        LET r == rdx_rb_find(h, e)
            equals == StrictEquals(e)
        IN  IF equals = {} THEN r = NULL ELSE equals = {r}

\* In a tree of six or more nodes left by an erase, one probe that is not in
\* the tree finds its equal and another probe finds nothing.
C9_Witness ==
    /\ status = "erased"
    /\ Cardinality(resident) >= 6
    /\ \E e \in Nodes \ resident : rdx_rb_find(Heap, e) \in resident
    /\ \E e \in Nodes : rdx_rb_find(Heap, e) = NULL

\* C10: rdx_rb_rightmost_less_equiv returns the resident node that is last in
\* strict order among those whose weak comparison to the probe is <= 0, and
\* NULL exactly when there is none.
C10_RightmostLessEquiv ==
    LET h == Heap IN
    \A e \in Nodes :
        LET r == rdx_rb_rightmost_less_equiv(h, e)
            candidates == WeakLessEquiv(e)
        IN  IF candidates = {} THEN r = NULL
            ELSE /\ r \in candidates
                 /\ \A k \in candidates \ {r} : StrictOrder[k][r] < 0

\* One probe ties with two resident nodes and gets the later one while a node
\* with a larger weak key is resident; another probe gets none.
C10_Witness ==
    /\ Cardinality(resident) >= 6
    /\ \E e \in Nodes :
         LET r == rdx_rb_rightmost_less_equiv(Heap, e) IN
         /\ r # NULL
         /\ WeakOrder[r][e] = 0
         /\ \E k \in resident \ {r} : WeakOrder[k][e] = 0
         /\ \E k \in resident : WeakOrder[k][e] > 0
    /\ \E e \in Nodes : rdx_rb_rightmost_less_equiv(Heap, e) = NULL


\* C11: rdx_rb_leftmost_greater_equiv returns the resident node that is first
\* in strict order among those whose weak comparison to the probe is >= 0, and
\* NULL exactly when there is none.
C11_LeftmostGreaterEquiv ==
    LET h == Heap IN
    \A e \in Nodes :
        LET r == rdx_rb_leftmost_greater_equiv(h, e)
            candidates == WeakGreaterEquiv(e)
        IN  IF candidates = {} THEN r = NULL
            ELSE /\ r \in candidates
                 /\ \A k \in candidates \ {r} : StrictOrder[r][k] < 0

\* One probe ties with two resident nodes and gets the earlier one while a
\* node with a smaller weak key is resident; another probe gets none.
C11_Witness ==
    /\ Cardinality(resident) >= 6
    /\ \E e \in Nodes :
         LET r == rdx_rb_leftmost_greater_equiv(Heap, e) IN
         /\ r # NULL
         /\ WeakOrder[r][e] = 0
         /\ \E k \in resident \ {r} : WeakOrder[k][e] = 0
         /\ \E k \in resident : WeakOrder[k][e] < 0
    /\ \E e \in Nodes : rdx_rb_leftmost_greater_equiv(Heap, e) = NULL


\* C12: rdx_rb_first_postorder, then rdx_rb_next_postorder until none, yields
\* every resident node exactly once, each node after both of its children,
\* the root last.
C12_PostorderChildrenFirst ==
    LET w == Postorder IN
    /\ Len(w) = Cardinality(resident)
    /\ {w[i] : i \in 1..Len(w)} = resident
    /\ \A i \in 1..Len(w) : \A c \in {rb_left[w[i]], rb_right[w[i]]} :
          c # NULL => \E j \in 1..(i - 1) : w[j] = c
    /\ rb_node # NULL => w[Len(w)] = rb_node

\* The traversal of a tree of six or more nodes with a node that has only a
\* right child and a left child that has no sibling.
C12_Witness ==
    /\ Cardinality(resident) >= 6
    /\ Len(Postorder) = Cardinality(resident)
    /\ \E n \in resident : rb_left[n] = NULL /\ rb_right[n] # NULL
    /\ \E n \in resident : rb_left[n] # NULL /\ rb_right[n] = NULL


\* C13: rdx_rb_replace_node puts new where the victim was: new has the
\* victim's parent, colour and children; the root reference and every other
\* node are as before except that their references to the victim now refer to
\* new (no rotation, no recolouring); the red-black invariants still hold.
C13_ReplaceInPlace ==
    [][\A victim \in resident : \A new \in Replaceable \ resident :
          (resident' = (resident \ {victim}) \cup {new} /\ Replace(victim, new)) =>
              LET Renamed(x) == IF x = victim THEN new ELSE x IN
              /\ rb_parent'[new] = rb_parent[victim]
              /\ rb_color'[new] = rb_color[victim]
              /\ rb_left'[new] = rb_left[victim]
              /\ rb_right'[new] = rb_right[victim]
              /\ rb_node' = Renamed(rb_node)
              /\ \A m \in Nodes \ {victim, new} :
                    /\ rb_parent'[m] = Renamed(rb_parent[m])
                    /\ rb_color'[m] = rb_color[m]
                    /\ rb_left'[m] = Renamed(rb_left[m])
                    /\ rb_right'[m] = Renamed(rb_right[m])
              /\ (RootIsBlack /\ NoRedRed /\ BlackHeight(rb_node, NumNodes) >= 0)'
      ]_vars

\* A replacement put a node in a place with a parent and two children.
C13_Witness ==
    /\ status = "replaced"
    /\ last \in resident
    /\ rb_parent[last] # NULL
    /\ rb_left[last] # NULL /\ rb_right[last] # NULL
    /\ rb_parent[rb_left[last]] = last /\ rb_parent[rb_right[last]] = last


\* C14: in no sequence of rdx_rb_insert calls on detached nodes and
\* rdx_rb_erase calls on resident nodes does a step dereference NULL.
C14_NoNullDereference == ~fault


\* C15: for every resident node, rdx_rb_next is the node right after it in
\* strict order and rdx_rb_prev the node right before it, NULL at the last
\* and the first node; rdx_rb_first and rdx_rb_last are the minimum and the
\* maximum, NULL for the empty tree.
C15_NeighboursAndEnds ==
    LET h == Heap
        first == rdx_rb_first(h)
        last_node == rdx_rb_last(h)
    IN  /\ \A n \in resident :
              /\ rdx_rb_next(h, n) = Successor(n)
              /\ rdx_rb_prev(h, n) = Predecessor(n)
        /\ IF resident = {} THEN first = NULL /\ last_node = NULL
           ELSE /\ first \in resident /\ Predecessor(first) = NULL
                /\ last_node \in resident /\ Successor(last_node) = NULL

\* After an erase, in a tree of six or more nodes, one node's predecessor is
\* an ancestor above its parent and another's is deep in its left subtree.
C15_Witness ==
    /\ status = "erased"
    /\ Cardinality(resident) >= 6
    /\ \E n \in resident :
          /\ rb_left[n] = NULL
          /\ rdx_rb_prev(Heap, n) \notin {NULL, rb_parent[n]}
    /\ \E n \in resident :
          /\ rb_left[n] # NULL
          /\ rdx_rb_prev(Heap, n) # rb_left[n]
    /\ rdx_rb_last(Heap) # rb_node


\* C16: rdx_rb_next and rdx_rb_prev return NULL on every node that is not in
\* the tree: one that was never inserted or one that has been erased.
C16_DetachedHasNoNeighbour ==
    status = "erased" =>
        \A n \in Nodes \ resident :
            rdx_rb_next(Heap, n) = NULL /\ rdx_rb_prev(Heap, n) = NULL


\* C17: in a postorder teardown that computes the next node before it frees
\* the current one, no freed node is read: the cursor is always a node not
\* yet freed, and the walk ends with every node freed.
C17_TeardownReadsLiveNodes ==
    /\ status = "teardown" => ~fault /\ last \in resident
    /\ status = "torn down" => ~fault /\ resident = {}

\* The teardown of a tree of six or more nodes, one of them with only a right
\* child and one only a left child, has freed every node.
C17_Witness ==
    /\ status = "torn down"
    /\ resident = {}
    /\ Len(Postorder) >= 6
    /\ \E n \in TornDown : rb_parent[n] # n /\ rb_left[n] = NULL /\ rb_right[n] # NULL
    /\ \E n \in TornDown : rb_parent[n] # n /\ rb_left[n] # NULL /\ rb_right[n] = NULL


\* C18: every augmented insert and every augmented erase calls propagate
\* exactly once, up to the root, and only when all links of the tree are as
\* the operation leaves them.
C18_PropagateOnceWhenFinal ==
    status \in {"inserted", "erased"} =>
        LET p == SelectSeq(calls, LAMBDA c : c.call = "propagate") IN
        /\ Len(p) = 1
        /\ p[1].b = NULL
        /\ p[1].final


\* C18 as amended: an augmented insert calls propagate once, from the inserted
\* node to the root, as its last callback and with all links final.  An
\* augmented erase calls propagate to the root once, after the splice (with
\* the links final when no rotation follows) and before every rotation of
\* the rebalancing; the only other propagate call it can make comes right
\* after the copy into the successor and stops at the successor.
C18_PropagateCalls ==
    LET n == Len(calls)
        toRoot == {i \in 1..n : calls[i].call = "propagate" /\ calls[i].b = NULL}
    IN  /\ status = "inserted" =>
              /\ n >= 1
              /\ calls[n] = [call |-> "propagate", a |-> last, b |-> NULL,
                             final |-> TRUE]
              /\ \A i \in 1..(n - 1) : calls[i].call = "rotate"
        /\ status = "erased" =>
              /\ Cardinality(toRoot) = 1
              /\ \A i \in toRoot :
                    /\ \A j \in (i + 1)..n : calls[j].call = "rotate"
                    /\ \A j \in 1..(i - 1) : calls[j].call # "rotate"
                    /\ i = n => calls[i].final
                    /\ \A j \in 1..(i - 1) :
                          calls[j].call = "propagate" =>
                              /\ j = 2
                              /\ calls[1].call = "copy"
                              /\ calls[2].b = calls[1].b

\* An erase whose successor lay below the victim's right child: a copy, a
\* propagate that stops at the successor, the propagate to the root, and then
\* a rotation of the rebalancing.
C18_Witness ==
    /\ status = "erased"
    /\ Len(calls) >= 4
    /\ calls[1].call = "copy"
    /\ calls[2].call = "propagate" /\ calls[2].b = calls[1].b
    /\ calls[3].call = "propagate" /\ calls[3].b = NULL /\ ~calls[3].final
    /\ calls[4].call = "rotate"


\* C19: after rdx_rb_replace_node on an augmented tree the node put in holds
\* the aggregate of the node it replaced, so that it and each of its
\* ancestors store 1 plus the stored counts of their children.
C19_ReplaceKeepsAggregate ==
    status = "replaced" =>
        \A n \in UpFrom(last, NumNodes) : ConsistentAt(n)


\* The node the splice takes out of its structural position: n itself when
\* it has at most one child, otherwise its in-order successor
SpliceRemoved(n) ==
    IF rb_left[n] = NULL \/ rb_right[n] = NULL THEN n ELSE Successor(n)

\* The child of the removed node that is promoted into its position, or NULL
SplicePromoted(n) ==
    LET r == SpliceRemoved(n) IN
    IF rb_left[r] # NULL THEN rb_left[r] ELSE rb_right[r]

\* The node that is the parent of the removed position once the splice is
\* done: the removed node's parent, or the successor itself when it was the
\* victim's right child and has taken the victim's place
SpliceParent(n) ==
    LET r == SpliceRemoved(n) IN
    IF r # n /\ rb_parent[r] = n THEN r ELSE rb_parent[r]

\* What C20 says of erasing n from the current tree, with the removed node
\* required to have a parent or not
SpliceRebalance(n, belowRoot) ==
    LET s == __rdx_rb_erase_augmented(Heap, TRUE, n)
        r == SpliceRemoved(n)
        c == SplicePromoted(n)
    IN  /\ s.rebalance # NULL <=>
              /\ rb_color[r] = RDX_RB_BLACK
              /\ c = NULL
              /\ belowRoot => rb_parent[r] # NULL
        /\ s.rebalance # NULL => s.rebalance = SpliceParent(n)
        /\ c # NULL => s.h.color[c] = RDX_RB_BLACK /\ s.rebalance = NULL

\* C20 as stated: the splice of erase returns a non-NULL rebalance node, the
\* former parent of the removed position, exactly when the node removed from
\* its structural position was BLACK and no child was promoted; a promoted
\* child ends up BLACK and no rebalance is requested.
C20_RebalanceIffBlackUnpromoted ==
    \A n \in resident : SpliceRebalance(n, FALSE)

\* C20: the splice of erase returns a non-NULL rebalance node, the former
\* parent of the removed position, exactly when the node removed from its
\* structural position was BLACK, no child was promoted, and the removed
\* node was not the root; a promoted child ends up BLACK and no rebalance
\* is requested.
C20_RebalanceIffBlackUnpromotedBelowRoot ==
    \A n \in resident : SpliceRebalance(n, TRUE)

\* A tree holding a victim with two children whose successor lies below its
\* right child, is BLACK and childless (rebalance from the successor's
\* parent), and a victim whose RED only child is promoted.
C20_Witness ==
    /\ \E n \in resident :
          /\ rb_left[n] # NULL /\ rb_right[n] # NULL
          /\ rb_parent[Successor(n)] # n
          /\ rb_color[Successor(n)] = RDX_RB_BLACK
          /\ __rdx_rb_erase_augmented(Heap, TRUE, n).rebalance
                 = rb_parent[Successor(n)]
    /\ \E n \in resident :
          /\ SpliceRemoved(n) = n
          /\ IsRed(SplicePromoted(n))
          /\ __rdx_rb_erase_augmented(Heap, TRUE, n).rebalance = NULL


\* The places the insertion loop passes when record n is inserted into the
\* current tree (none when the insertion is rejected)
InsertSteps(n) == my_node_insert(Heap, n).h.steps

\* The places the colour-fixup loop passes when resident node n is erased
\* from the current tree (none when the splice asks for no rebalancing)
EraseSteps(n) == rdx_rb_erase(Heap, n).steps

\* The tops of iterations among the places passed
Iterations(steps) == SelectSeq(steps, LAMBDA e : e.at = "iteration")

\* The cases entered among the places passed
Cases(steps) == SelectSeq(steps, LAMBDA e : e.at # "iteration")

\* C21: whatever record is inserted into a tree built by insertions and
\* erases, at the top of every iteration of the insertion loop the current
\* node is RED, and when its parent is RED the grandparent exists and is
\* BLACK.
C21_InsertLoopInvariant ==
    \A n \in Nodes \ resident :
        LET steps == Iterations(InsertSteps(n)) IN
        \A i \in DOMAIN steps :
            LET e == steps[i] IN
            /\ e.color[e.node] = RDX_RB_RED
            /\ (e.parent # NULL /\ e.color[e.parent] = RDX_RB_RED) =>
                  /\ e.up[e.parent] # NULL
                  /\ e.color[e.up[e.parent]] = RDX_RB_BLACK

\* A record whose insertion goes round the loop twice and finds a RED parent
\* both times: the grandparent is looked at after a Case 1 colour flip.
C21_Witness ==
    \E n \in Nodes \ resident :
        LET steps == Iterations(InsertSteps(n)) IN
        /\ Len(steps) >= 2
        /\ \A i \in 1..2 :
              /\ steps[i].parent # NULL
              /\ steps[i].color[steps[i].parent] = RDX_RB_RED


\* The sibling an iteration of the colour-fixup loop reads first: parent's
\* right child, or its left child when node is the right child
StepSibling(e) ==
    IF e.node # e.rb_right[e.parent] THEN e.rb_right[e.parent]
    ELSE e.rb_left[e.parent]

\* The child of that sibling on node's side, which Case 1 recolours
StepNearChild(e) ==
    IF e.node # e.rb_right[e.parent] THEN e.rb_left[StepSibling(e)]
    ELSE e.rb_right[StepSibling(e)]

\* C22: whatever node is erased from a tree built by insertions and erases,
\* at the top of every iteration of the colour-fixup loop parent is not NULL,
\* node is NULL or BLACK, the sibling is not NULL, and a RED sibling's child
\* on node's side is not NULL; no NULL reference is dereferenced.
C22_EraseLoopInvariant ==
    \A n \in resident :
        LET steps == Iterations(EraseSteps(n)) IN
        /\ ~rdx_rb_erase(Heap, n).fault
        /\ \A i \in DOMAIN steps :
              LET e == steps[i] IN
              /\ e.parent # NULL
              /\ e.node # NULL => e.color[e.node] = RDX_RB_BLACK
              /\ StepSibling(e) # NULL
              /\ e.color[StepSibling(e)] = RDX_RB_RED => StepNearChild(e) # NULL

\* A node whose erase goes round the loop twice, the second time at a BLACK
\* node, and a node whose erase meets a RED sibling (Case 1).
C22_Witness ==
    /\ \E n \in resident :
          LET steps == Iterations(EraseSteps(n)) IN
          /\ Len(steps) >= 2
          /\ steps[1].node = NULL
          /\ steps[2].node # NULL
    /\ \E n \in resident :
          LET steps == Iterations(EraseSteps(n)) IN
          /\ Len(steps) >= 1
          /\ steps[1].color[StepSibling(steps[1])] = RDX_RB_RED


\* The number of nodes from n up to the root in the tree of step e
RECURSIVE StepDepth(_, _, _)
StepDepth(e, n, fuel) ==
    IF n = NULL \/ fuel = 0 THEN 0 ELSE 1 + StepDepth(e, e.up[n], fuel - 1)

\* Every iteration of steps that is followed by another one went through
\* only the case that continues the loop (Case 1 of the insertion loop,
\* Case 2 under a BLACK parent of the colour-fixup loop), and the next
\* iteration's parent is strictly nearer the root.
OnlyUpwardContinues(steps) ==
    \A i \in DOMAIN steps :
        (steps[i].at = "iteration"
             /\ \E j \in (i + 1)..Len(steps) : steps[j].at = "iteration") =>
            /\ steps[i + 1].at = (IF steps[i].loop = "insert"
                                  THEN "case 1" ELSE "case 2")
            /\ steps[i].loop = "erase" =>
                   steps[i + 1].color[steps[i + 1].parent] = RDX_RB_BLACK
            /\ steps[i + 2].at = "iteration"
            /\ StepDepth(steps[i + 2], steps[i + 2].parent, NumNodes)
                   < StepDepth(steps[i], steps[i].parent, NumNodes)

\* C23: rdx_rb_insert_color and rdx_rb_erase on a red-black tree end: an
\* iteration of the rebalancing loop that is not the last goes through
\* insert Case 1 or erase Case 2 with a BLACK parent only and leaves the
\* loop strictly nearer the root; any other case is in the last iteration.
C23_LoopsMoveUpOrEnd ==
    /\ \A n \in Nodes \ resident : OnlyUpwardContinues(InsertSteps(n))
    /\ \A n \in resident : OnlyUpwardContinues(EraseSteps(n))

\* A tree with a record whose insertion continues after Case 1 and a node
\* whose erase continues after Case 2, each ending in a later iteration.
C23_Witness ==
    /\ \E n \in Nodes \ resident :
          /\ Len(Iterations(InsertSteps(n))) >= 2
          /\ Len(Cases(InsertSteps(n))) >= 1
    /\ \E n \in resident :
          /\ Len(Iterations(EraseSteps(n))) >= 2
          /\ Len(Cases(EraseSteps(n))) >= 1


\* The nodes met going down from n through the child references, as a
\* sequence: a node met twice (shared, or on a cycle) is in it twice
RECURSIVE Below(_, _)
Below(n, fuel) ==
    IF n = NULL THEN <<>>
    ELSE IF fuel = 0 THEN <<n, n>>
    ELSE Below(rb_left[n], fuel - 1) \o <<n>> \o Below(rb_right[n], fuel - 1)

\* C25: after every sequence of insertions, erases and replacements the root
\* has no parent, every child's parent is the node it is a child of, every
\* resident node is met exactly once going down from the root and nothing
\* else is, and no resident node's parent is the node itself.
C25_LinksConsistent ==
    LET below == Below(rb_node, NumNodes) IN
    /\ rb_node # NULL => rb_parent[rb_node] = NULL
    /\ \A n \in resident :
          /\ rb_left[n] # NULL => rb_parent[rb_left[n]] = n
          /\ rb_right[n] # NULL => rb_parent[rb_right[n]] = n
          /\ rb_parent[n] # n
    /\ {below[i] : i \in DOMAIN below} = resident
    /\ Len(below) = Cardinality(resident)

\* A tree of at least six nodes whose root, with two children, has just been
\* put in by rdx_rb_replace_node.
C25_Witness ==
    /\ status = "replaced"
    /\ Cardinality(resident) >= 6
    /\ rb_node = last
    /\ rb_left[last] # NULL /\ rb_right[last] # NULL


\* The nodes of heap h in order: left subtree, node, right subtree
RECURSIVE InOrder(_, _, _)
InOrder(h, n, fuel) ==
    IF n = NULL \/ fuel = 0 THEN <<>>
    ELSE InOrder(h, h.rb_left[n], fuel - 1) \o <<n>>
             \o InOrder(h, h.rb_right[n], fuel - 1)

\* C26: rdx_rb_erase of a resident victim leaves the nodes that were in the
\* tree, in the order they were in, without the victim: none lost, doubled
\* or moved past another.
C26_EraseRemovesOnlyVictim ==
    LET before == InOrder(Heap, rb_node, NumNodes) IN
    \A victim \in resident :
        LET h == rdx_rb_erase(Heap, victim) IN
        InOrder(h, h.rb_node, NumNodes)
            = SelectSeq(before, LAMBDA n : n # victim)

\* A tree holding a victim for each way of splicing: one with at most one
\* child, one whose successor is its right child, and one whose successor
\* lies deeper and has a right child of its own.
C26_Witness ==
    /\ Len(InOrder(Heap, rb_node, NumNodes)) = Cardinality(resident)
    /\ \E victim \in resident :
          rb_left[victim] = NULL /\ rb_right[victim] # NULL
    /\ \E victim \in resident :
          /\ rb_left[victim] # NULL /\ rb_right[victim] # NULL
          /\ rb_left[rb_right[victim]] = NULL
    /\ \E victim \in resident :
          /\ rb_left[victim] # NULL /\ rb_right[victim] # NULL
          /\ rb_left[rb_right[victim]] # NULL
          /\ rb_right[Successor(victim)] # NULL


\* The rotations among the places passed, by the case that makes them
Rotations(steps) ==
    SelectSeq(steps, LAMBDA e : \/ e.loop = "insert" /\ e.at \in {"case 2", "case 3"}
                                \/ e.loop = "erase"
                                     /\ e.at \in {"case 1", "case 3", "case 4"})

\* No iteration starts after a step of steps that is at one of the cases
NoIterationAfter(steps, cases) ==
    \A i \in DOMAIN steps :
        steps[i].at \in cases =>
            \A j \in (i + 1)..Len(steps) : steps[j].at # "iteration"

\* C27: one rdx_rb_insert_color on a red-black tree rotates at most twice,
\* a Case 2 rotation only right before the Case 3 rotation, and no iteration
\* of the loop starts after a rotation.
C27_InsertRotatesAtMostTwice ==
    \A n \in Nodes \ resident :
        LET steps == InsertSteps(n)
            rotations == Rotations(steps)
        IN  /\ Len(rotations) <= 2
            /\ Len(rotations) = 1 => rotations[1].at = "case 3"
            /\ Len(rotations) = 2 =>
                   rotations[1].at = "case 2" /\ rotations[2].at = "case 3"
            /\ NoIterationAfter(steps, {"case 2", "case 3"})

\* A record whose insertion flips colours (Case 1), goes up, and then
\* rotates twice (Case 2 and Case 3) in its last iteration.
C27_Witness ==
    \E n \in Nodes \ resident :
        LET cases == Cases(InsertSteps(n)) IN
        /\ Len(cases) = 3
        /\ cases[1].at = "case 1"
        /\ cases[2].at = "case 2"
        /\ cases[3].at = "case 3"

\* C28: the colour fixup of one rdx_rb_erase on a red-black tree rotates at
\* most three times, at most once in each of Case 1, Case 3 and Case 4, and
\* once Case 1 has rotated no further iteration starts: the deficit is not
\* moved upward.
C28_EraseRotatesAtMostThrice ==
    \A n \in resident :
        LET steps == EraseSteps(n)
            rotations == Rotations(steps)
        IN  /\ Len(rotations) <= 3
            /\ \A i, j \in DOMAIN rotations :
                   i # j => rotations[i].at # rotations[j].at
            /\ NoIterationAfter(steps, {"case 1"})

\* A node whose erase rotates three times, in Case 1, Case 3 and Case 4.
C28_Witness ==
    \E n \in resident :
        LET rotations == Rotations(EraseSteps(n)) IN
        /\ Len(rotations) = 3
        /\ rotations[1].at = "case 1"
        /\ rotations[2].at = "case 3"
        /\ rotations[3].at = "case 4"


\* C24: an rdx_rb_find for keys that are in the tree returns NULL only when
\* an insertion was making its stores while the find ran, and a find that no
\* insertion ran beside returns the node with those keys.
C24_FindMissesOnlyBesideInsertion ==
    finder.pc = "done" =>
        /\ finder.ret = NULL => finder.overlapped
        /\ ~finder.overlapped => finder.ret \in StrictEquals(finder.elem)

\* The find has returned NULL for keys whose node was in the tree when it was
\* called and is in the tree now that the insertion beside it is complete.
C24_Witness ==
    /\ finder.pc = "done"
    /\ finder.ret = NULL
    /\ pending = <<>>
    /\ StrictEquals(finder.elem) # {}

=============================================================================
